---- MODULE Spec2Model ----
(***************************************************************************)
(* Caster production scheduler of swynix_mes: the PPC Casting Plan         *)
(* timeline of a caster, the PPC Caster Kiosk insertion path, the          *)
(* re-anchoring on melting start, the completion reconciliation and the    *)
(* legacy Melting Batch / Coil synchronisation paths.                      *)
(*                                                                         *)
(* Times are integers (one unit = one minute of the schedule); NoTime is   *)
(* Python's None for a datetime field.  planned_duration_minutes = 0 is    *)
(* the unset (falsy) value of that field.  The column holding the caster   *)
(* of a plan is read as `caster` by some modules and `casting_workstation` *)
(* by others (the column was renamed); it is one field here.               *)
(* Document.save()/insert()/submit() run the controller's validate() and   *)
(* refuse a cancelled document; db_set / frappe.db.set_value write without *)
(* validation; frappe.throw that reaches the request boundary rolls the    *)
(* request back to its last frappe.db.commit(); an exception caught by the *)
(* caller rolls nothing back.  The lifecycle requests are made with their  *)
(* time argument omitted, which the handlers replace by now_datetime().    *)
(***************************************************************************)
EXTENDS Integers, Sequences, FiniteSets, TLC

\* ------------------------------------------------------------------ bounds
MaxPlans == 3
SmallPlans == 2
MaxTime == 4
MaxNow == 2
NumCasters == 1
NumRequests == 2

NoTime == 0 - 1

PlanIds == 1..MaxPlans
Times == 0..MaxTime
Casters == 1..NumCasters

\* ------------------------------------------------------- status vocabulary
\* ppc_casting_plan.py
PLAN_SHIFTABLE_STATUSES == {"Planned"}
PLAN_LOCKED_STATUSES == {"Melting", "Metal Ready", "Casting", "Coils Complete"}
\* ppc_caster_kiosk.py
SHIFTABLE_STATUSES == {"Planned", "Released"}
LOCKED_STATUSES == {"Melting", "Metal Ready", "Casting", "Coils Complete", "Not Produced"}
\* ppc_scheduler.py
MOVABLE_STATUSES == {"Planned", "Released"}

Statuses == SHIFTABLE_STATUSES \cup LOCKED_STATUSES

\* A row of `tabPPC Casting Plan`; ds = -1 marks a name not yet used.
\* aend is actual_end (casting_end is always written with it); coil tells
\* whether mother_coil is set; mbl is plan.melting_batch (0 = empty): the
\* Melting Batch is named by the plan it was created for.  mb, mbstart,
\* mbraw describe the Melting Batch whose ppc_casting_plan is this plan:
\* its status ("None" = no such batch), its batch_start_datetime, whether
\* its raw_materials table is non-empty.
NoPlan ==
  [ds |-> 0 - 1, caster |-> 0, status |-> "Planned", s |-> 0, e |-> 0, pdm |-> 0,
   astart |-> NoTime, aend |-> NoTime, mstart |-> NoTime, coil |-> FALSE,
   mbl |-> 0, mb |-> "None", mbstart |-> NoTime, mbraw |-> FALSE]

\* plans: the table `tabPPC Casting Plan`; now: the clock; last: history of
\* the last request; conc: the create_plan requests being served step by step
VARIABLES plans, now, last, conc

vars == <<plans, now, last, conc>>

\* ------------------------------------------------------------ small helpers
Exists(db) == {p \in PlanIds : db[p].ds >= 0}

\* naming series: the next unused name
NewName(db) == Cardinality(Exists(db)) + 1

Min(S) == CHOOSE x \in S : \A y \in S : x <= y

\* plans whose window differs between two database states
Moved(db1, db2) == {p \in PlanIds : db1[p].ds >= 0 /\ (db1[p].s # db2[p].s \/ db1[p].e # db2[p].e)}

\* every window of the database lies inside the modelled horizon
InHorizon(db) == \A p \in PlanIds : db[p].s <= MaxTime /\ db[p].e <= MaxTime /\ db[p].s >= 0

\* `ORDER BY start_datetime asc` returns rows with equal start_datetime in
\* an unspecified order: tie is a permutation of the names that breaks ties
Perms == {f \in [PlanIds -> PlanIds] : \A i, j \in PlanIds : i # j => f[i] # f[j]}

\* the tie-breaks that can matter in database state db
Ties(db) ==
  IF \E q, r \in PlanIds : q # r /\ db[q].ds >= 0 /\ db[r].ds >= 0 /\ db[q].s = db[r].s
  THEN Perms ELSE {[i \in PlanIds |-> i]}

Rank(tie, q) == CHOOSE i \in PlanIds : tie[i] = q

RECURSIVE OrderByStart(_, _, _)
OrderByStart(db, S, tie) ==
  IF S = {} THEN <<>>
  ELSE LET m == CHOOSE q \in S : \A r \in S \ {q} :
                   \/ db[q].s < db[r].s
                   \/ (db[q].s = db[r].s /\ Rank(tie, q) < Rank(tie, r))
       IN <<m>> \o OrderByStart(db, S \ {m}, tie)

\* ------------------------------------------- PPCCastingPlan controller hooks
\* the three-clause SQL overlap condition of check_caster_overlap
SqlOverlap(ps, pe, s, e) ==
  \/ (ps <= s /\ pe > s)
  \/ (ps < e /\ pe >= e)
  \/ (ps >= s /\ pe <= e)

validate_datetime_range(doc) == doc.s < doc.e

\* a duration bookkeeping that follows the window whatever the status
set_planned_duration_any_status(doc) ==
  IF doc.e - doc.s > 0 THEN [doc EXCEPT !.pdm = doc.e - doc.s] ELSE doc

set_planned_duration(doc) ==
  IF doc.status \notin PLAN_SHIFTABLE_STATUSES THEN doc
  ELSE IF doc.e - doc.s > 0 THEN [doc EXCEPT !.pdm = doc.e - doc.s] ELSE doc

\* step 1 of check_caster_overlap: a locked plan overlaps the document
locked_overlap(db, name, doc) ==
  \E q \in PlanIds :
     /\ db[q].ds >= 0 /\ q # name
     /\ db[q].caster = doc.caster
     /\ db[q].status \in PLAN_LOCKED_STATUSES
     /\ db[q].ds < 2
     /\ SqlOverlap(db[q].s, db[q].e, doc.s, doc.e)

\* step 2 of check_caster_overlap: a shiftable plan that starts earlier overlaps
shiftable_overlap(db, name, doc) ==
  \E q \in PlanIds :
     /\ db[q].ds >= 0 /\ q # name
     /\ db[q].caster = doc.caster
     /\ db[q].status \in PLAN_SHIFTABLE_STATUSES
     /\ db[q].ds < 2
     /\ db[q].s < doc.s
     /\ SqlOverlap(db[q].s, db[q].e, doc.s, doc.e)

check_caster_overlap(db, name, doc) ==
  ~locked_overlap(db, name, doc) /\ ~shiftable_overlap(db, name, doc)

\* PPCCastingPlan.validate: TRUE when no frappe.throw is raised
validate(db, name, doc) ==
  /\ validate_datetime_range(doc)
  /\ check_caster_overlap(db, name, doc)

\* Document.save / insert: a cancelled document cannot be edited; validate,
\* then write the row
save(db, name, doc) ==
  IF db[name].ds # 2 /\ validate(db, name, doc)
  THEN [ok |-> TRUE, db |-> [db EXCEPT ![name] = set_planned_duration(doc)]]
  ELSE [ok |-> FALSE, db |-> db]

\* ------------------------------------------------------ ppc_caster_kiosk.py
\* a duration check that lets an empty window through
end_not_before_start(start_dt, end_dt) == ~(end_dt < start_dt)

\* the duration check of preview_plan_insertion and create_plan: FALSE when
\* "End Datetime must be after Start Datetime" is raised
end_after_start(start_dt, end_dt) == ~(end_dt <= start_dt)

\* a guard that tolerates a start one minute before the current time
ensure_not_in_past_lenient(start_dt, t) == ~(start_dt + 1 < t)

ensure_not_in_past(start_dt, t) == ~(start_dt < t)

ensure_no_overlap_with_locked(db, caster, start_dt, end_dt) ==
  ~\E q \in PlanIds :
      /\ db[q].ds >= 0
      /\ db[q].caster = caster
      /\ db[q].status \in LOCKED_STATUSES
      /\ db[q].ds < 2
      /\ start_dt < db[q].e /\ end_dt > db[q].s

\* the start times compute_shift_window_and_delta looks at (no docstatus filter)
FutureShiftableStarts(db, caster, new_start) ==
  {db[q].s : q \in {r \in PlanIds : /\ db[r].ds >= 0
                                    /\ db[r].caster = caster
                                    /\ db[r].status \in SHIFTABLE_STATUSES
                                    /\ db[r].s >= new_start}}

\* returns <<shift_from, delta>>; shift_from = NoTime is Python's None
compute_shift_window_and_delta(db, caster, new_start, new_end) ==
  LET starts == FutureShiftableStarts(db, caster, new_start) IN
  IF starts = {} THEN <<NoTime, 0>>
  ELSE LET first_future == Min(starts) IN
       IF new_end - first_future <= 0 THEN <<NoTime, 0>>
       ELSE <<first_future, new_end - first_future>>

\* a uniform shift that forgets to move end_datetime along with start_datetime
shift_future_plans_start_only(db, caster, from_datetime, delta) ==
  IF delta = 0 \/ from_datetime = NoTime THEN db
  ELSE [p \in PlanIds |->
          IF /\ db[p].ds >= 0
             /\ db[p].caster = caster
             /\ db[p].status \in SHIFTABLE_STATUSES
             /\ db[p].s >= from_datetime
          THEN [db[p] EXCEPT !.s = db[p].s + delta]
          ELSE db[p]]

\* kiosk shift_future_plans: uniform shift through frappe.db.set_value
shift_future_plans(db, caster, from_datetime, delta) ==
  IF delta = 0 \/ from_datetime = NoTime THEN db
  ELSE [p \in PlanIds |->
          IF /\ db[p].ds >= 0
             /\ db[p].caster = caster
             /\ db[p].status \in SHIFTABLE_STATUSES
             /\ db[p].s >= from_datetime
          THEN [db[p] EXCEPT !.s = db[p].s + delta, !.e = db[p].e + delta]
          ELSE db[p]]

\* create_plan: result of the request as [ok, db, name]
create_plan_result(db, t, caster, start_dt, end_dt, attrs_ok) ==
  IF ~end_after_start(start_dt, end_dt) THEN [ok |-> FALSE, db |-> db, name |-> 0]
  ELSE IF ~ensure_not_in_past(start_dt, t) THEN [ok |-> FALSE, db |-> db, name |-> 0]
  ELSE IF ~ensure_no_overlap_with_locked(db, caster, start_dt, end_dt)
       THEN [ok |-> FALSE, db |-> db, name |-> 0]
  ELSE
    LET sd == compute_shift_window_and_delta(db, caster, start_dt, end_dt)
        \* shift_future_plans ends with frappe.db.commit()
        shifted == IF sd[1] # NoTime /\ sd[2] > 0
                   THEN shift_future_plans(db, caster, sd[1], sd[2]) ELSE db
        name == NewName(db)
        doc == [NoPlan EXCEPT !.ds = 0, !.caster = caster, !.status = "Planned",
                              !.s = start_dt, !.e = end_dt]
        ins == save(shifted, name, doc)
    IN IF ~attrs_ok \/ ~ins.ok
       THEN [ok |-> FALSE, db |-> shifted, name |-> 0]
       ELSE [ok |-> TRUE, db |-> [ins.db EXCEPT ![name].ds = 1], name |-> name]

\* the plans preview_plan_insertion fetches: not cancelled, not Not Produced
PreviewRows(db, caster) ==
  {q \in PlanIds : /\ db[q].ds >= 0
                   /\ db[q].caster = caster
                   /\ db[q].status # "Not Produced"
                   /\ db[q].ds < 2}

\* index of the first fetched plan whose window holds req_start (0 = none)
RECURSIVE overlapped_index(_, _, _, _)
overlapped_index(db, rows, i, req_start) ==
  IF i > Len(rows) THEN 0
  ELSE IF db[rows[i]].s <= req_start /\ req_start < db[rows[i]].e THEN i
  ELSE overlapped_index(db, rows, i + 1, req_start)

\* the snapping of preview_plan_insertion at time t
suggested_start(db, t, rows, req_start) ==
  LET idx == overlapped_index(db, rows, 1, req_start) IN
  IF idx = 0 THEN req_start
  ELSE LET overlapped == db[rows[idx]] IN
       IF overlapped.s < t
       THEN IF overlapped.e < t THEN t ELSE overlapped.e
       ELSE IF idx > 1
            THEN LET prev_plan == db[rows[idx - 1]] IN
                 IF prev_plan.e < t THEN t ELSE prev_plan.e
            ELSE overlapped.s

\* preview_plan_insertion at time t: ok = FALSE when it raised
preview_plan_insertion(db, t, caster, req_start, req_end, tie) ==
  LET fail == [ok |-> FALSE, suggested_start |-> NoTime, suggested_end |-> NoTime,
               shift_from |-> NoTime, shift_delta_seconds |-> 0, affected_plans |-> {}]
  IN
  IF ~end_after_start(req_start, req_end) THEN fail
  ELSE IF ~ensure_not_in_past(req_start, t) THEN fail
  ELSE
    LET rows == OrderByStart(db, PreviewRows(db, caster), tie)
        ss == suggested_start(db, t, rows, req_start)
        se == ss + (req_end - req_start)
    IN IF ~ensure_not_in_past(ss, t) THEN fail
       ELSE IF ~ensure_no_overlap_with_locked(db, caster, ss, se) THEN fail
       ELSE
         LET sd == compute_shift_window_and_delta(db, caster, ss, se)
             affected == IF sd[1] # NoTime /\ sd[2] > 0
                         THEN {q \in PlanIds : /\ db[q].ds >= 0
                                               /\ db[q].caster = caster
                                               /\ db[q].status \in SHIFTABLE_STATUSES
                                               /\ db[q].ds < 2
                                               /\ db[q].s >= sd[1]}
                         ELSE {}
         IN [ok |-> TRUE, suggested_start |-> ss, suggested_end |-> se,
             shift_from |-> sd[1], shift_delta_seconds |-> sd[2],
             affected_plans |-> affected]

\* ------------------------------------- ppc_casting_plan.py module functions
\* rows shift_future_plans_after selects for the anchor document `cur`
RestackRows(db, name, cur) ==
  {q \in PlanIds : /\ db[q].ds >= 0 /\ q # name
                   /\ db[q].caster = cur.caster
                   /\ db[q].s >= cur.s
                   /\ db[q].status \in PLAN_SHIFTABLE_STATUSES
                   /\ db[q].ds < 2}

\* a re-stack whose cursor stays where it was after it pushed a plan
RECURSIVE restack_loop_stale_cursor(_, _, _, _)
restack_loop_stale_cursor(db, rows, i, last_end) ==
  IF i > Len(rows) THEN [ok |-> TRUE, db |-> db]
  ELSE LET q == rows[i]
           start == db[q].s
           end == db[q].e
       IN IF start < last_end
          THEN LET duration_min == IF db[q].pdm # 0 THEN db[q].pdm ELSE end - start
                   doc == [db[q] EXCEPT !.s = last_end, !.e = last_end + duration_min]
                   sv == save(db, q, doc)
               IN IF ~sv.ok THEN [ok |-> FALSE, db |-> db]
                  ELSE restack_loop_stale_cursor(sv.db, rows, i + 1, last_end)
          ELSE restack_loop_stale_cursor(db, rows, i + 1, end)

\* the for-loop of shift_future_plans_after from row i, cursor last_end;
\* ok = FALSE when a next_plan.save() raised (db is the state at the raise)
RECURSIVE restack_loop(_, _, _, _)
restack_loop(db, rows, i, last_end) ==
  IF i > Len(rows) THEN [ok |-> TRUE, db |-> db]
  ELSE LET q == rows[i]
           start == db[q].s
           end == db[q].e
       IN IF start < last_end
          THEN LET duration_min == IF db[q].pdm # 0 THEN db[q].pdm ELSE end - start
                   doc == [db[q] EXCEPT !.s = last_end, !.e = last_end + duration_min]
                   sv == save(db, q, doc)
               IN IF ~sv.ok THEN [ok |-> FALSE, db |-> db]
                  ELSE restack_loop(sv.db, rows, i + 1, sv.db[q].e)
          ELSE restack_loop(db, rows, i + 1, end)

\* shift_future_plans_after(current_plan); rows is the query result
shift_future_plans_after(db, name, cur, rows) ==
  restack_loop(db, rows, 1, cur.e)

DefaultDuration == 60

\* start_melting_for_plan: the document as modified before plan.save()
start_melting_doc(plan, melt_start_dt, batch) ==
  LET p1 == IF batch # 0 THEN [plan EXCEPT !.mbl = batch] ELSE plan
      p2 == IF p1.pdm = 0 THEN [p1 EXCEPT !.pdm = p1.e - p1.s] ELSE p1
      p3 == IF p2.pdm # 0
            THEN [p2 EXCEPT !.s = melt_start_dt, !.e = melt_start_dt + p2.pdm]
            ELSE p2
      p4 == IF p3.astart = NoTime THEN [p3 EXCEPT !.astart = melt_start_dt] ELSE p3
      p5 == [p4 EXCEPT !.mstart = melt_start_dt]
  IN IF p5.status \in PLAN_SHIFTABLE_STATUSES THEN [p5 EXCEPT !.status = "Melting"] ELSE p5

\* the request start_melting_for_plan as [ok, db]; a raise rolls back
start_melting_for_plan_result(db, name, melt_start_dt, batch, tie) ==
  LET sv == save(db, name, start_melting_doc(db[name], melt_start_dt, batch)) IN
  IF ~sv.ok THEN [ok |-> FALSE, db |-> db]
  ELSE LET rows == OrderByStart(sv.db, RestackRows(sv.db, name, sv.db[name]), tie)
           rs == shift_future_plans_after(sv.db, name, sv.db[name], rows)
       IN IF rs.ok THEN rs ELSE [ok |-> FALSE, db |-> db]

\* PPCCastingPlan.shift_schedule_on_melting_start: the document before save
shift_schedule_doc(plan, actual_start_time) ==
  LET d1 == IF plan.pdm # 0 THEN plan.pdm ELSE plan.e - plan.s
      duration_minutes == IF d1 # 0 THEN d1 ELSE DefaultDuration
      p1 == [plan EXCEPT !.s = actual_start_time,
                         !.e = actual_start_time + duration_minutes,
                         !.mstart = actual_start_time]
      p2 == IF p1.astart = NoTime THEN [p1 EXCEPT !.astart = actual_start_time] ELSE p1
  IN IF p2.status \in PLAN_SHIFTABLE_STATUSES THEN [p2 EXCEPT !.status = "Melting"] ELSE p2

shift_schedule_on_melting_start_result(db, name, actual_start_time, tie) ==
  IF actual_start_time = db[name].s THEN [ok |-> TRUE, db |-> db]
  ELSE
    LET sv == save(db, name, shift_schedule_doc(db[name], actual_start_time)) IN
    IF ~sv.ok THEN [ok |-> FALSE, db |-> db]
    ELSE LET rows == OrderByStart(sv.db, RestackRows(sv.db, name, sv.db[name]), tie)
             rs == shift_future_plans_after(sv.db, name, sv.db[name], rows)
         IN IF rs.ok THEN rs ELSE [ok |-> FALSE, db |-> db]

\* mark_casting_complete: the document before plan.save()
mark_complete_doc(plan, complete_dt) ==
  LET p1 == [plan EXCEPT !.aend = complete_dt, !.status = "Coils Complete"] IN
  IF p1.astart # NoTime /\ p1.aend # NoTime
  THEN [p1 EXCEPT !.s = p1.astart, !.e = p1.aend] ELSE p1

mark_casting_complete_result(db, name, complete_dt, tie) ==
  LET sv == save(db, name, mark_complete_doc(db[name], complete_dt)) IN
  IF ~sv.ok THEN [ok |-> FALSE, db |-> db]
  ELSE LET rows == OrderByStart(sv.db, RestackRows(sv.db, name, sv.db[name]), tie)
           rs == shift_future_plans_after(sv.db, name, sv.db[name], rows)
       IN IF rs.ok THEN rs ELSE [ok |-> FALSE, db |-> db]

\* PPCCastingPlan.validate_can_cancel: TRUE when no frappe.throw is raised
validate_can_cancel(db, name) ==
  LET doc == db[name] IN
  /\ doc.status \notin PLAN_LOCKED_STATUSES
  /\ (doc.mbl # 0 =>
        /\ db[doc.mbl].mb = "Draft"
        /\ ~db[doc.mbl].mbraw)
  /\ (doc.mb # "None" => doc.mb = "Draft")

\* ---------------------------------------------------- utils/ppc_scheduler.py
\* rows shift_future_plans_for_caster selects
FuturePlans(db, caster, from_dt) ==
  {q \in PlanIds : /\ db[q].ds >= 0
                   /\ db[q].caster = caster
                   /\ db[q].s >= from_dt
                   /\ db[q].status \in MOVABLE_STATUSES
                   /\ db[q].ds < 2}

\* the for-loop of shift_future_plans_for_caster from row i; ok = FALSE when
\* a doc.save() raised (db is the state at the raise)
RECURSIVE shift_loop(_, _, _, _, _)
shift_loop(db, rows, i, casting_plan_name, delta) ==
  IF i > Len(rows) THEN [ok |-> TRUE, db |-> db]
  ELSE LET name == rows[i] IN
       IF name = casting_plan_name
       THEN shift_loop(db, rows, i + 1, casting_plan_name, delta)
       ELSE IF db[name].mbl # 0 /\ db[db[name].mbl].mb \notin {"None", "Draft"}
       THEN shift_loop(db, rows, i + 1, casting_plan_name, delta)
       ELSE LET doc == [db[name] EXCEPT !.s = db[name].s + delta,
                                        !.e = db[name].s + delta + (db[name].e - db[name].s)]
                sv == save(db, name, doc)
            IN IF ~sv.ok THEN [ok |-> FALSE, db |-> db]
               ELSE shift_loop(sv.db, rows, i + 1, casting_plan_name, delta)

shift_future_plans_for_caster(db, casting_plan_name, delta, from_time, tie) ==
  IF delta = 0 THEN [ok |-> TRUE, db |-> db]
  ELSE shift_loop(db,
                  OrderByStart(db, FuturePlans(db, db[casting_plan_name].caster, from_time), tie),
                  1, casting_plan_name, delta)

\* --------------------------------------------------------- melting_batch.py
\* MeltingBatch.sync_to_casting_plan (on_update) of the batch of plan p, whose
\* status is st and batch_start_datetime is bs, at time t; writes by db_set
mb_sync_to_casting_plan(db, p, st, bs, t) ==
  LET cp == db[p]
      ms == IF bs # NoTime THEN bs ELSE t
      movable == cp.status \in {"Planned", "Released"}
      u == IF st = "Charging" /\ cp.mstart = NoTime
           THEN [cp EXCEPT !.mstart = ms, !.astart = ms,
                           !.status = IF movable THEN "Melting" ELSE cp.status]
           ELSE IF st = "Melting" /\ movable
           THEN [cp EXCEPT !.mstart = IF cp.mstart = NoTime THEN ms ELSE cp.mstart,
                           !.astart = IF cp.mstart = NoTime THEN ms ELSE cp.astart,
                           !.status = "Melting"]
           ELSE IF st = "Transferred"
           THEN [cp EXCEPT !.status = IF cp.status \in {"Melting", "Released", "Planned"}
                                      THEN "Metal Ready" ELSE cp.status]
           ELSE IF st = "Scrapped" THEN [cp EXCEPT !.status = "Not Produced"]
           ELSE cp
  IN IF cp.ds = 2 THEN db ELSE [db EXCEPT ![p] = u]

\* MeltingBatch.mark_melting_started_if_first_time for the batch of plan p at
\* time t, as [ok, db]; ok = FALSE when it raised (db is the state at the raise)
mark_melting_started_if_first_time(db, p, t, tie) ==
  LET cp == db[p] IN
  IF cp.mstart # NoTime THEN [ok |-> TRUE, db |-> db]
  ELSE LET old_planned_start == cp.s
           duration == cp.e - cp.s
           delta == t - old_planned_start
           doc == [cp EXCEPT !.mstart = t, !.astart = t,
                             !.status = IF cp.status \in {"Planned", "Released"}
                                        THEN "Melting" ELSE cp.status,
                             !.s = t, !.e = t + duration]
           sv == save(db, p, doc)
       IN IF ~sv.ok THEN [ok |-> FALSE, db |-> db]
          ELSE shift_future_plans_for_caster(sv.db, p, delta, old_planned_start, tie)

\* ---------------------------------------------------------- melting_kiosk.py
\* start_batch_from_cast_plan as [ok, db]; the caller catches what
\* mark_melting_started_if_first_time raises
start_batch_from_cast_plan_result(db, p, t, tie) ==
  IF db[p].mbl # 0 THEN [ok |-> FALSE, db |-> db]
  ELSE LET inserted == [db EXCEPT ![p].mb = "Charging", ![p].mbstart = t]
           synced == mb_sync_to_casting_plan(inserted, p, "Charging", t, t)
           linked == [synced EXCEPT ![p].mbl = p]
       IN mark_melting_started_if_first_time(linked, p, t, tie)

\* log_process_event as [ok, db]
log_process_event_result(db, p, event_type, t, tie) ==
  LET is_first_burner_on == event_type = "Burner On" /\ db[p].mbstart = NoTime
      bs == IF is_first_burner_on THEN t ELSE db[p].mbstart
      saved == mb_sync_to_casting_plan([db EXCEPT ![p].mbstart = bs], p, db[p].mb, bs, t)
  IN IF is_first_burner_on THEN mark_melting_started_if_first_time(saved, p, t, tie)
     ELSE [ok |-> TRUE, db |-> saved]

\* add_raw_material_row as [ok, db]
add_raw_material_row_result(db, p, is_correction, t, tie) ==
  LET is_first_charge == ~db[p].mbraw /\ ~is_correction
      saved == mb_sync_to_casting_plan([db EXCEPT ![p].mbraw = TRUE], p, db[p].mb,
                                       db[p].mbstart, t)
  IN IF is_first_charge THEN mark_melting_started_if_first_time(saved, p, t, tie)
     ELSE [ok |-> TRUE, db |-> saved]

\* ------------------------------------------------------------------ coil.py
\* Coil.sync_to_casting_plan of a Mother coil of plan p whose coil_end_time is
\* coil_end, as [ok, db]; ok = FALSE when the try block raised
coil_sync_to_casting_plan(db, p, coil_end, tie) ==
  LET cp == db[p]
      old_planned_end == cp.e
      later == cp.aend = NoTime \/ coil_end > cp.aend
      complete == cp.status \in {"Planned", "Released", "Melting", "Metal Ready", "Casting"}
      updates == later \/ complete \/ ~cp.coil
      cp1 == [cp EXCEPT !.aend = IF later THEN coil_end ELSE cp.aend,
                        !.status = IF complete THEN "Coils Complete" ELSE cp.status,
                        !.coil = TRUE]
      delta == cp1.aend - old_planned_end
  IN IF cp.ds = 2 \/ ~updates THEN [ok |-> TRUE, db |-> db]
     ELSE IF delta = 0 THEN [ok |-> TRUE, db |-> [db EXCEPT ![p] = cp1]]
     ELSE shift_future_plans_for_caster([db EXCEPT ![p] = [cp1 EXCEPT !.e = cp1.aend]],
                                        p, delta, old_planned_end, tie)

\* --------------------------------------------------------------- the machine

\* history of the last request: its name, the plan it named (the new plan of
\* an insertion; 0 when the request raised and wrote nothing), whether it ran
\* without raising, and the plans whose window it changed
Done(op, p, ok, db1, db2) ==
  [op |-> op, p |-> IF ok \/ Moved(db1, db2) # {} THEN p ELSE 0, ok |-> ok,
   moved |-> Moved(db1, db2)]

\* the create_plan requests that may run concurrently
Requests == 1..NumRequests

\* a request not yet received; pc is its position in create_plan
Idle == [pc |-> "idle", caster |-> 0, S |-> 0, E |-> 0, shift_from |-> NoTime, delta |-> 0]

Init ==
  /\ plans = [p \in PlanIds |-> NoPlan]
  /\ now = 0
  /\ last = [op |-> "init", p |-> 0, ok |-> TRUE, moved |-> {}]
  /\ conc = [base |-> plans, req |-> [i \in Requests |-> Idle]]

Tick ==
  /\ now < MaxNow
  /\ now' = now + 1
  /\ UNCHANGED <<plans, conc>>
  /\ last' = Done("tick", 0, TRUE, plans, plans)

\* POST create_plan(data) while the caster has fewer than n plans
create_plan_upto(n) ==
  \E c \in Casters, S \in Times, E \in Times, attrs_ok \in BOOLEAN :
    /\ NewName(plans) <= n
    /\ LET r == create_plan_result(plans, now, c, S, E, attrs_ok) IN
       /\ InHorizon(r.db)
       /\ plans' = r.db
       /\ last' = Done("create_plan", r.name, r.ok, plans, r.db)
    /\ UNCHANGED <<now, conc>>

create_plan == create_plan_upto(MaxPlans)

\* the same request on the boards of the smaller specifications
create_plan_small == create_plan_upto(SmallPlans)

\* POST start_melting_for_plan(plan_name, melting_batch_name, melt_start)
start_melting_for_plan ==
  \E p \in Exists(plans), t \in {now}, tie \in Ties(plans) :
  \E batch \in {0} \cup (IF plans[p].mb # "None" THEN {p} ELSE {}) :
    /\ LET r == start_melting_for_plan_result(plans, p, t, batch, tie) IN
       /\ InHorizon(r.db)
       /\ plans' = r.db
       /\ last' = Done("start_melting_for_plan", p, r.ok, plans, r.db)
    /\ UNCHANGED <<now, conc>>

\* PPCCastingPlan.shift_schedule_on_melting_start(actual_start_time)
shift_schedule_on_melting_start ==
  \E p \in Exists(plans), t \in {now}, tie \in Ties(plans) :
    /\ LET r == shift_schedule_on_melting_start_result(plans, p, t, tie) IN
       /\ InHorizon(r.db)
       /\ plans' = r.db
       /\ last' = Done("shift_schedule_on_melting_start", p, r.ok, plans, r.db)
    /\ UNCHANGED <<now, conc>>

\* POST mark_casting_complete(plan_name, completion_time)
mark_casting_complete ==
  \E p \in Exists(plans), t \in {now}, tie \in Ties(plans) :
    /\ LET r == mark_casting_complete_result(plans, p, t, tie) IN
       /\ InHorizon(r.db)
       /\ plans' = r.db
       /\ last' = Done("mark_casting_complete", p, r.ok, plans, r.db)
    /\ UNCHANGED <<now, conc>>

\* POST release_plan(plan_name)
release_plan ==
  \E p \in Exists(plans) :
    /\ LET ok == plans[p].status = "Planned"
           db == IF ok THEN [plans EXCEPT ![p].status = "Released"] ELSE plans
       IN /\ plans' = db
          /\ last' = Done("release_plan", p, ok, plans, db)
    /\ UNCHANGED <<now, conc>>

\* cancel_plan: result of the request as [ok, db]
cancel_plan_result(db, name) ==
  IF db[name].ds = 2 THEN [ok |-> FALSE, db |-> db]
  ELSE IF db[name].ds = 1
       THEN IF validate_can_cancel(db, name)
            THEN [ok |-> TRUE, db |-> [db EXCEPT ![name].ds = 2]]
            ELSE [ok |-> FALSE, db |-> db]
       ELSE save(db, name, [db[name] EXCEPT !.status = "Not Produced"])

\* POST cancel_plan(plan_name)
cancel_plan ==
  \E p \in Exists(plans) :
    /\ LET r == cancel_plan_result(plans, p) IN
       /\ plans' = r.db
       /\ last' = Done("cancel_plan", p, r.ok, plans, r.db)
    /\ UNCHANGED <<now, conc>>

\* update_plan_times: result of the request as [ok, db, name]
update_plan_times_result(db, t, name, start_dt, end_dt) ==
  LET fail == [ok |-> FALSE, db |-> db, name |-> name] IN
  IF db[name].ds = 2 THEN fail
  ELSE IF db[name].status \in LOCKED_STATUSES THEN fail
  ELSE IF end_dt <= start_dt THEN fail
  ELSE IF ~ensure_not_in_past(start_dt, t) THEN fail
  ELSE IF db[name].ds = 1
       THEN \* doc.cancel(); frappe.copy_doc(doc); insert(); submit()
            IF ~validate_can_cancel(db, name) THEN fail
            ELSE LET cancelled == [db EXCEPT ![name].ds = 2]
                     new == NewName(db)
                     copy == [db[name] EXCEPT !.ds = 0, !.s = start_dt, !.e = end_dt,
                                              !.mb = "None", !.mbstart = NoTime,
                                              !.mbraw = FALSE]
                     ins == save(cancelled, new, copy)
                 IN IF ~ins.ok THEN fail
                    ELSE [ok |-> TRUE, db |-> [ins.db EXCEPT ![new].ds = 1], name |-> new]
       ELSE LET sv == save(db, name, [db[name] EXCEPT !.s = start_dt, !.e = end_dt])
            IN [ok |-> sv.ok, db |-> sv.db, name |-> name]

\* POST update_plan_times(plan_name, start_datetime, end_datetime) while the
\* table has room for the amended copy of a submitted plan
update_plan_times_upto(n) ==
  \E p \in Exists(plans), S \in Times, E \in Times :
    /\ plans[p].ds = 1 => NewName(plans) <= n
    /\ LET r == update_plan_times_result(plans, now, p, S, E) IN
       /\ plans' = r.db
       /\ last' = Done("update_plan_times", r.name, r.ok, plans, r.db)
    /\ UNCHANGED <<now, conc>>

update_plan_times == update_plan_times_upto(MaxPlans)

update_plan_times_small == update_plan_times_upto(SmallPlans)

\* a Melting Batch is created in Draft for plan p (Document.insert)
new_melting_batch ==
  \E p \in Exists(plans) :
    /\ plans[p].mb = "None"
    /\ plans' = [plans EXCEPT ![p].mb = "Draft"]
    /\ last' = Done("new_melting_batch", p, TRUE, plans, plans')
    /\ UNCHANGED <<now, conc>>

\* MeltingBatch.mark_scrapped() on the batch of plan p: the status workflow
\* allows Scrapped from every status but Transferred and Scrapped; save()
\* runs on_update, which syncs the plan
mark_scrapped ==
  \E p \in Exists(plans) :
    /\ plans[p].mb \notin {"None", "Scrapped"}
    /\ plans' = mb_sync_to_casting_plan([plans EXCEPT ![p].mb = "Scrapped"], p, "Scrapped",
                                        plans[p].mbstart, now)
    /\ last' = Done("mark_scrapped", p, TRUE, plans, plans')
    /\ UNCHANGED <<now, conc>>

\* POST start_batch_from_cast_plan(plan_name)
start_batch_from_cast_plan ==
  \E p \in Exists(plans), tie \in Ties(plans) :
    /\ plans[p].mb = "None"
    /\ LET r == start_batch_from_cast_plan_result(plans, p, now, tie) IN
       /\ InHorizon(r.db)
       /\ plans' = r.db
       /\ last' = Done("start_batch_from_cast_plan", p, r.ok, plans, r.db)
    /\ UNCHANGED <<now, conc>>

\* POST log_process_event(batch_name, event_type)
log_process_event ==
  \E p \in Exists(plans), event_type \in {"Burner On", "Fluxing"}, tie \in Ties(plans) :
    /\ plans[p].mb # "None"
    /\ LET r == log_process_event_result(plans, p, event_type, now, tie) IN
       /\ InHorizon(r.db)
       /\ plans' = r.db
       /\ last' = Done("log_process_event", p, r.ok, plans, r.db)
    /\ UNCHANGED <<now, conc>>

\* POST add_raw_material_row(batch_name, ..., is_correction)
add_raw_material_row ==
  \E p \in Exists(plans), is_correction \in BOOLEAN, tie \in Ties(plans) :
    /\ plans[p].mb # "None"
    /\ LET r == add_raw_material_row_result(plans, p, is_correction, now, tie) IN
       /\ InHorizon(r.db)
       /\ plans' = r.db
       /\ last' = Done("add_raw_material_row", p, r.ok, plans, r.db)
    /\ UNCHANGED <<now, conc>>

\* Coil.on_submit of a Mother coil of plan p, coil_end_time defaulted to now
coil_on_submit ==
  \E p \in Exists(plans), tie \in Ties(plans) :
    /\ LET r == coil_sync_to_casting_plan(plans, p, now, tie) IN
       /\ InHorizon(r.db)
       /\ plans' = r.db
       /\ last' = Done("coil_on_submit", p, r.ok, plans, r.db)
    /\ UNCHANGED <<now, conc>>

\* ---------------------------------------------- create_plan, step by step
AllIdle == \A i \in Requests : conc.req[i].pc = "idle"

\* an insertion served alone while no other request is in flight
create_plan_before ==
  /\ AllIdle
  /\ create_plan_upto(MaxPlans - NumRequests)

\* create_plan up to compute_shift_window_and_delta: the checks and the reads
create_plan_check(i) ==
  \E c \in Casters, S \in Times, E \in Times :
    /\ conc.req[i].pc = "idle"
    /\ LET rejected == \/ E <= S
                       \/ ~ensure_not_in_past(S, now)
                       \/ ~ensure_no_overlap_with_locked(plans, c, S, E)
           sd == compute_shift_window_and_delta(plans, c, S, E)
           r == [pc |-> IF rejected THEN "done" ELSE "checked", caster |-> c,
                 S |-> S, E |-> E,
                 shift_from |-> IF rejected THEN NoTime ELSE sd[1],
                 delta |-> IF rejected THEN 0 ELSE sd[2]]
       IN conc' = [base |-> IF AllIdle THEN plans ELSE conc.base,
                   req |-> [conc.req EXCEPT ![i] = r]]
    /\ last' = Done("create_plan_check", 0, TRUE, plans, plans)
    /\ UNCHANGED <<plans, now>>

\* create_plan's call of shift_future_plans, which ends with frappe.db.commit()
create_plan_shift(i) ==
  /\ conc.req[i].pc = "checked"
  /\ LET r == conc.req[i]
         db == IF r.shift_from # NoTime /\ r.delta > 0
               THEN shift_future_plans(plans, r.caster, r.shift_from, r.delta) ELSE plans
     IN /\ InHorizon(db)
        /\ plans' = db
        /\ last' = Done("create_plan_shift", 0, TRUE, plans, db)
  /\ conc' = [conc EXCEPT !.req[i].pc = "shifted"]
  /\ now' = now

\* create_plan's doc.insert() and doc.submit()
create_plan_insert(i) ==
  /\ conc.req[i].pc = "shifted"
  /\ NewName(plans) <= MaxPlans
  /\ LET r == conc.req[i]
         name == NewName(plans)
         doc == [NoPlan EXCEPT !.ds = 0, !.caster = r.caster, !.status = "Planned",
                               !.s = r.S, !.e = r.E]
         ins == save(plans, name, doc)
         db == IF ins.ok THEN [ins.db EXCEPT ![name].ds = 1] ELSE plans
     IN /\ plans' = db
        /\ last' = Done("create_plan_insert", name, ins.ok, plans, db)
  /\ conc' = [conc EXCEPT !.req[i].pc = "done"]
  /\ now' = now

conc_check == \E i \in Requests : create_plan_check(i)
conc_shift == \E i \in Requests : create_plan_shift(i)
conc_insert == \E i \in Requests : create_plan_insert(i)

\* ------------------------------------------------------- the specifications
\* the plan lifecycle on a board of up to MaxPlans plans
Next ==
  \/ Tick
  \/ create_plan
  \/ start_melting_for_plan
  \/ mark_casting_complete

Spec == Init /\ [][Next]_vars

\* the lifecycle with released plans and the controller's own re-anchor
NextReleased ==
  \/ Tick
  \/ create_plan_small
  \/ release_plan
  \/ start_melting_for_plan
  \/ shift_schedule_on_melting_start
  \/ mark_casting_complete

SpecReleased == Init /\ [][NextReleased]_vars

\* the melting kiosk on a board of up to MaxPlans plans
NextMelting ==
  \/ Tick
  \/ create_plan
  \/ new_melting_batch
  \/ start_batch_from_cast_plan
  \/ log_process_event

SpecMelting == Init /\ [][NextMelting]_vars

\* the melting kiosk with raw material charges
NextCharge ==
  \/ Tick
  \/ create_plan_small
  \/ new_melting_batch
  \/ start_batch_from_cast_plan
  \/ log_process_event
  \/ add_raw_material_row

SpecCharge == Init /\ [][NextCharge]_vars

\* the three shifters side by side: the kiosk's uniform shift, the re-stack
\* and the scheduler's uniform shift
NextShift ==
  \/ Tick
  \/ create_plan_small
  \/ start_melting_for_plan
  \/ new_melting_batch
  \/ log_process_event

SpecShift == Init /\ [][NextShift]_vars

\* coil completion
NextCoil ==
  \/ Tick
  \/ create_plan_small
  \/ start_melting_for_plan
  \/ coil_on_submit

SpecCoil == Init /\ [][NextCoil]_vars

\* the planning board
NextBoard ==
  \/ Tick
  \/ create_plan_small
  \/ release_plan
  \/ cancel_plan
  \/ update_plan_times_small

SpecBoard == Init /\ [][NextBoard]_vars

\* two create_plan requests served concurrently
NextConc ==
  \/ create_plan_before
  \/ conc_check
  \/ conc_shift
  \/ conc_insert

SpecConc == Init /\ [][NextConc]_vars

\* cancellation of plans whose Melting Batch has been worked on
NextCancel ==
  \/ Tick
  \/ create_plan_small
  \/ release_plan
  \/ new_melting_batch
  \/ add_raw_material_row
  \/ cancel_plan

SpecCancel == Init /\ [][NextCancel]_vars

\* insertions on a board that also holds cancelled plans
NextInsert ==
  \/ Tick
  \/ create_plan
  \/ release_plan
  \/ cancel_plan

SpecInsert == Init /\ [][NextInsert]_vars

\* released plans whose melting is started from both kiosks
NextLock ==
  \/ Tick
  \/ create_plan_small
  \/ release_plan
  \/ start_melting_for_plan
  \/ start_batch_from_cast_plan

SpecLock == Init /\ [][NextLock]_vars

\* rejected heats: plans set to Not Produced by a scrapped Melting Batch
NextScrap ==
  \/ Tick
  \/ create_plan_small
  \/ new_melting_batch
  \/ mark_scrapped
  \/ start_melting_for_plan

SpecScrap == Init /\ [][NextScrap]_vars

\* ------------------------------------------------------------ the properties
\* half-open windows [s, e) intersect
Overlap(a, b) == a.s < b.e /\ b.s < a.e

\* plans on the schedule: created and not cancelled
Live(db) == {p \in PlanIds : db[p].ds \in {0, 1}}

WindowOf(doc) == <<doc.s, doc.e>>

\* C1: invariant I1 - no two non-cancelled plans of one caster, of which at
\* least one has a locked status (Melting, Metal Ready, Casting, Coils
\* Complete), have overlapping half-open windows [start_datetime, end_datetime)
C1_NoLockedOverlap ==
  \A p, q \in Live(plans) :
     (/\ p # q
      /\ plans[p].caster = plans[q].caster
      /\ (plans[p].status \in PLAN_LOCKED_STATUSES \/ plans[q].status \in PLAN_LOCKED_STATUSES))
     => ~Overlap(plans[p], plans[q])

\* the requests that insert a plan or re-anchor one on its start of melting
InsertOrReanchor ==
  {"create_plan", "start_melting_for_plan", "log_process_event",
   "start_batch_from_cast_plan", "add_raw_material_row"}

\* C2: invariant I2 - an insertion whose new plan starts at X, or a re-anchor
\* that moves a plan to the new start X, leaves the start_datetime and
\* end_datetime of every other movable plan of the caster that started
\* strictly before X exactly as they were
C2_EarlierMovableUntouched ==
  [][(last'.op \in InsertOrReanchor /\ last'.p # 0)
     => \A q \in Live(plans) \ {last'.p} :
           (/\ plans[q].caster = plans'[last'.p].caster
            /\ plans[q].status \in MOVABLE_STATUSES
            /\ plans[q].s < plans'[last'.p].s)
           => WindowOf(plans'[q]) = WindowOf(plans[q])]_vars

\* C3: duration preservation - whenever the kiosk's uniform shift, the
\* scheduler's uniform shift or the cascading re-stack changes the window of a
\* plan other than the anchor of the request, the plan's new end minus new
\* start equals its old end minus old start
C3_DurationPreserved ==
  [][\A q \in Exists(plans) :
        (q # last'.p /\ WindowOf(plans'[q]) # WindowOf(plans[q]))
        => plans'[q].e - plans'[q].s = plans[q].e - plans[q].s]_vars

\* a shifter moved a plan other than the anchor: the scheduler's uniform
\* shift after a late first Burner On
C3_Witness ==
  /\ last.op = "log_process_event"
  /\ last.ok
  /\ last.moved \ {last.p} # {}

\* the slots a re-stack anchored at plan a is responsible for
Eligible(db, a) ==
  {q \in Live(db) \ {a} : /\ db[q].caster = db[a].caster
                          /\ db[q].status \in MOVABLE_STATUSES
                          /\ db[q].s >= db[a].s}

\* r immediately precedes q in start order among the eligible slots
ImmediatelyPrecedes(db, a, r, q) ==
  /\ r # q
  /\ db[r].s <= db[q].s
  /\ ~\E u \in Eligible(db, a) \ {r, q} : db[r].s < db[u].s /\ db[u].s < db[q].s

\* the requests that end with one call of shift_future_plans_after
Restacking == {"start_melting_for_plan", "mark_casting_complete"}

\* C4: postcondition of the re-stack - when a call of
\* shift_future_plans_after(anchor) has completed, no eligible slot (Planned
\* or Released, not cancelled, same caster, starting at or after the anchor)
\* overlaps the anchor or the eligible slot immediately preceding it, and
\* every slot the pass moved starts strictly later than it did
C4_RestackPostcondition ==
  [][(last'.op \in Restacking /\ last'.ok)
     => /\ \A q \in Eligible(plans', last'.p) :
             /\ ~Overlap(plans'[q], plans'[last'.p])
             /\ \A r \in Eligible(plans', last'.p) :
                   ImmediatelyPrecedes(plans', last'.p, r, q)
                   => ~Overlap(plans'[r], plans'[q])
        /\ \A q \in last'.moved \ {last'.p} : plans'[q].s > plans[q].s]_vars

\* C5: idempotence of the re-stack - a second call of
\* shift_future_plans_after(anchor) right after a completed first call moves
\* no plan, whatever order the query returns equal starts in
C5_RestackIdempotent ==
  (last.op \in Restacking /\ last.ok)
  => \A tie \in Ties(plans) :
        LET rows == OrderByStart(plans, RestackRows(plans, last.p, plans[last.p]), tie)
            again == shift_future_plans_after(plans, last.p, plans[last.p], rows)
        IN again.ok /\ Moved(plans, again.db) = {}

\* the first call pushed a follower of the anchor
C5_Witness ==
  /\ last.op \in Restacking
  /\ last.ok
  /\ last.moved \ {last.p} # {}

\* C6: no partial state on a rejected insertion - when create_plan ends with
\* a validation error the table is exactly as before the call
C6_RejectedInsertionLeavesNoTrace ==
  [][(last'.op = "create_plan" /\ ~last'.ok) => plans' = plans]_vars

\* two tables hold the same timeline up to the names given to the plans
SameTimeline(db1, db2) ==
  \E f \in Perms : \A p \in PlanIds : db1[f[p]] = db2[p]

\* create_plan served alone on db for the request r
Alone(db, r) == create_plan_result(db, now, r.caster, r.S, r.E, TRUE).db

AllDone == \A i \in Requests : conc.req[i].pc = "done"

\* C7: per-resource serialization - the timeline left by two concurrent
\* create_plan requests on a caster is the one that serving them one after the
\* other in some order leaves, and I1 holds in it
C7_Serializable ==
  AllDone =>
    /\ \E i, j \in Requests :
          /\ i # j
          /\ SameTimeline(plans, Alone(Alone(conc.base, conc.req[i]), conc.req[j]))
    /\ C1_NoLockedOverlap

\* the requests whose re-anchor or completion cascades over later plans
Cascading ==
  {"start_melting_for_plan", "mark_casting_complete", "log_process_event",
   "start_batch_from_cast_plan", "add_raw_material_row", "coil_on_submit"}

\* C8: all-or-nothing cascade - a re-anchor or completion that raised before
\* it had applied every move of its shift set leaves every window as it was
C8_CascadeAllOrNothing ==
  [][(last'.op \in Cascading /\ ~last'.ok) => Moved(plans, plans') = {}]_vars

\* C9: locked and terminal plans are frozen - no request changes the window
\* of a plan in a locked status (Melting, Metal Ready, Casting, Coils Complete,
\* Not Produced), except that the transition to Coils Complete replaces it by
\* [actual_start, actual_end)
C9_LockedFrozen ==
  [][\A q \in Exists(plans) :
        (plans[q].status \in LOCKED_STATUSES /\ WindowOf(plans'[q]) # WindowOf(plans[q]))
        => /\ plans[q].status # "Coils Complete"
           /\ plans'[q].status = "Coils Complete"
           /\ WindowOf(plans'[q]) = <<plans'[q].astart, plans'[q].aend>>]_vars

\* the requests that re-anchor a plan on its start of melting
Reanchoring ==
  {"start_melting_for_plan", "shift_schedule_on_melting_start", "log_process_event",
   "start_batch_from_cast_plan", "add_raw_material_row"}

\* C10: the re-anchor fires once - a re-anchor request for a plan that
\* already has a recorded melting_start or actual_start leaves that plan's
\* window, status and actual_start and every other plan's window unchanged
C10_ReanchorOnce ==
  [][\A p \in Exists(plans) :
        (/\ last'.op \in Reanchoring
         /\ last'.p = p
         /\ (plans[p].mstart # NoTime \/ plans[p].astart # NoTime))
        => /\ Moved(plans, plans') = {}
           /\ plans'[p].status = plans[p].status
           /\ plans'[p].astart = plans[p].astart]_vars

\* C11: re-anchor result - a successful start_melting_for_plan at time t on a
\* movable plan (Planned or Released) leaves the plan with start_datetime = t,
\* end_datetime = t + planned_duration_minutes (its current duration when none
\* is stored), actual_start = t and status Melting, and no later movable plan
\* of the caster overlaps it afterwards
C11_ReanchorResult ==
  [][\A p \in Exists(plans) :
        (/\ last'.op = "start_melting_for_plan"
         /\ last'.p = p
         /\ last'.ok
         /\ plans[p].status \in MOVABLE_STATUSES)
        => /\ plans'[p].s = now
           /\ plans'[p].e = now + (IF plans[p].pdm # 0 THEN plans[p].pdm
                                   ELSE plans[p].e - plans[p].s)
           /\ plans'[p].astart = now
           /\ plans'[p].status = "Melting"
           /\ \A q \in Eligible(plans', p) : ~Overlap(plans'[q], plans'[p])]_vars

\* the Melting Kiosk requests that can be the real start of melting
MeltingKioskStart ==
  {"start_batch_from_cast_plan", "add_raw_material_row", "log_process_event"}

\* C12: every real melting start re-anchors the plan - when a Melting Kiosk
\* request records melting_start for a movable plan at a time different from
\* its planned start, the plan's start_datetime is that melting start
\* afterwards and its duration is unchanged
C12_KioskStartReanchors ==
  [][\A p \in Exists(plans) :
        (/\ last'.op \in MeltingKioskStart
         /\ last'.p = p
         /\ last'.ok
         /\ plans[p].status \in MOVABLE_STATUSES
         /\ plans[p].mstart = NoTime
         /\ plans'[p].mstart # NoTime
         /\ plans'[p].mstart # plans[p].s)
        => /\ plans'[p].s = plans'[p].mstart
           /\ plans'[p].e - plans'[p].s = plans[p].e - plans[p].s]_vars

\* C13: scenario B generalised - re-anchoring plan P2 to the actual start t
\* succeeds and gives P2 the window [t, t + its duration) whenever that
\* window overlaps no locked plan; a movable plan P1 that starts strictly
\* before t keeps its window even when it overlaps P2's new window; and every
\* movable plan starting at or after t that overlaps P2's new window starts
\* at or after P2's new end afterwards, with its own duration
C13_ReanchorAcceptsEarlierOverlap ==
  \A p2 \in Live(plans), p1 \in Live(plans), tie \in Ties(plans) :
    LET d == IF plans[p2].pdm # 0 THEN plans[p2].pdm ELSE plans[p2].e - plans[p2].s
        w == [s |-> now, e |-> now + d]
        r == start_melting_for_plan_result(plans, p2, now, 0, tie)
    IN (/\ p1 # p2
        /\ plans[p1].caster = plans[p2].caster
        /\ plans[p1].status \in MOVABLE_STATUSES
        /\ plans[p1].s < now
        /\ Overlap(plans[p1], w)
        /\ \A q \in Live(plans) \ {p2} :
              plans[q].status \in LOCKED_STATUSES => ~Overlap(plans[q], w))
       => /\ r.ok
          /\ WindowOf(r.db[p2]) = <<now, now + d>>
          /\ WindowOf(r.db[p1]) = WindowOf(plans[p1])
          /\ \A q \in Live(plans) \ {p2} :
                (/\ plans[q].caster = plans[p2].caster
                 /\ plans[q].status \in MOVABLE_STATUSES
                 /\ plans[q].s >= now
                 /\ Overlap(plans[q], w))
                => /\ r.db[q].s >= now + d
                   /\ r.db[q].e - r.db[q].s = plans[q].e - plans[q].s

\* the two entry points of the re-anchor in ppc_casting_plan.py
PlanReanchor == {"start_melting_for_plan", "shift_schedule_on_melting_start"}

\* C14: the documented early start - with plan A followed directly by plan B
\* on one caster, both not started, a start of melting for B at a time t
\* before A's start re-anchors B to [t, t + B's duration) and leaves A's
\* window as it was
C14_EarlyStartExample ==
  [][\A b \in Exists(plans), a \in Exists(plans) :
        (/\ last'.op \in PlanReanchor
         /\ last'.p = b
         /\ last'.ok
         /\ a # b
         /\ plans[a].caster = plans[b].caster
         /\ plans[a].status = "Planned"
         /\ plans[b].status = "Planned"
         /\ plans[b].s = plans[a].e
         /\ now < plans[a].s)
        => /\ WindowOf(plans'[b]) = <<now, now + (plans[b].e - plans[b].s)>>
           /\ WindowOf(plans'[a]) = WindowOf(plans[a])]_vars

\* C15: completion reconciliation - a successful mark_casting_complete at
\* time t sets actual_end = t and status Coils Complete, makes the window
\* [actual_start, t) when actual_start is known, and leaves every movable plan
\* of the caster that started at or after the completed plan's start beginning
\* at or after the completed plan's new end
C15_CompletionReconciliation ==
  [][\A p \in Exists(plans) :
        (/\ last'.op = "mark_casting_complete"
         /\ last'.p = p
         /\ last'.ok)
        => /\ plans'[p].aend = now
           /\ plans'[p].status = "Coils Complete"
           /\ (plans[p].astart # NoTime
               => WindowOf(plans'[p]) = <<plans[p].astart, now>>)
           /\ \A q \in Live(plans') \ {p} :
                 (/\ plans[q].caster = plans[p].caster
                  /\ plans[q].status \in MOVABLE_STATUSES
                  /\ plans[q].s >= plans[p].s)
                 => plans'[q].s >= plans'[p].e]_vars

\* the condition under which a plan may be cancelled: a movable status, and
\* every Melting Batch linked to the plan still in Draft with nothing charged
CancelAllowed(db, p) ==
  /\ db[p].status \in MOVABLE_STATUSES
  /\ (db[p].mb # "None" => (db[p].mb = "Draft" /\ ~db[p].mbraw))
  /\ (db[p].mbl # 0 => (db[db[p].mbl].mb = "Draft" /\ ~db[db[p].mbl].mbraw))

\* C16: cancellation guard - cancel_plan cancels a plan only if its status is
\* Planned or Released and its linked Melting Batch is absent or unstarted
\* (Draft, nothing charged); in every other case the plan is left unchanged
C16_CancellationGuard ==
  [][last'.op = "cancel_plan"
     => \A p \in Exists(plans) : ~CancelAllowed(plans, p) => plans'[p] = plans[p]]_vars

\* C17: no scheduling in the past - preview_plan_insertion and create_plan
\* reject a request whose start is before the current time, the suggested
\* start of a successful preview is at or after the current time, and a plan
\* inserted by create_plan starts at or after the time of the call
C17_NoSchedulingInThePast ==
  \A c \in Casters, S \in Times, E \in Times :
    /\ \A tie \in Ties(plans) :
          LET pv == preview_plan_insertion(plans, now, c, S, E, tie) IN
          /\ S < now => ~pv.ok
          /\ pv.ok => pv.suggested_start >= now
    /\ \A attrs_ok \in BOOLEAN :
          LET r == create_plan_result(plans, now, c, S, E, attrs_ok) IN
          /\ S < now => (~r.ok /\ r.db = plans)
          /\ r.ok => (r.db[r.name].s = S /\ S >= now)

\* the clock has advanced, the last request inserted a plan, a request for an
\* earlier start is possible and some preview snaps its start
C17_Witness ==
  /\ now > 0
  /\ last.op = "create_plan"
  /\ last.ok
  /\ plans[last.p].s >= now
  /\ \E c \in Casters, S \in Times, E \in Times, tie \in Ties(plans) :
        LET pv == preview_plan_insertion(plans, now, c, S, E, tie) IN
        pv.ok /\ pv.suggested_start # S

\* C18: invalid duration - preview_plan_insertion and create_plan reject
\* every request whose end is before or equal to its start, and the rejected
\* create_plan changes no plan
C18_InvalidDurationRejected ==
  \A c \in Casters, S \in Times, E \in Times :
    E <= S =>
      /\ \A tie \in Ties(plans) : ~preview_plan_insertion(plans, now, c, S, E, tie).ok
      /\ \A attrs_ok \in BOOLEAN :
            LET r == create_plan_result(plans, now, c, S, E, attrs_ok) IN
            ~r.ok /\ r.db = plans

\* a create_plan was rejected without a trace on a board where a request with
\* a valid duration from the same start would have shifted a plan
C18_Witness ==
  /\ last.op = "create_plan"
  /\ ~last.ok
  /\ last.moved = {}
  /\ \E c \in Casters, S \in Times, E \in Times :
        /\ E <= S
        /\ ensure_not_in_past(S, now)
        /\ ~create_plan_result(plans, now, c, S, E, TRUE).ok
        /\ S + 1 <= MaxTime
        /\ Moved(plans, create_plan_result(plans, now, c, S, S + 1, TRUE).db) # {}

\* the movable plans of the caster of plan n that start at or after S
LaterMovable(db, n, c, S) ==
  {q \in Live(db) \ {n} : /\ db[q].caster = c
                          /\ db[q].status \in MOVABLE_STATUSES
                          /\ db[q].s >= S}

\* C19: insertion shift computation - for a successful create_plan with
\* window [S,E), with F the earliest start among the movable plans of the
\* caster that start at or after S and delta = max(0, E - F) (0 when there is
\* none), exactly the movable plans starting at or after F move, each by
\* delta, and every other plan on the schedule keeps its window
C19_InsertionShift ==
  [][(last'.op = "create_plan" /\ last'.ok)
     => LET n == last'.p
            S == plans'[n].s
            E == plans'[n].e
            later == LaterMovable(plans, n, plans'[n].caster, S)
            F == Min({plans[q].s : q \in later})
            delta == IF later = {} THEN 0 ELSE IF E - F > 0 THEN E - F ELSE 0
        IN \A q \in Live(plans) :
              IF q \in later
              THEN WindowOf(plans'[q]) = <<plans[q].s + delta, plans[q].e + delta>>
              ELSE WindowOf(plans'[q]) = WindowOf(plans[q])]_vars

\* the non-cancelled plans of every caster are pairwise non-overlapping
NonOverlapping(db) ==
  \A p, q \in Live(db) :
     (p # q /\ db[p].caster = db[q].caster) => ~Overlap(db[p], db[q])

\* C20: non-overlapping timeline after insertion - a successful create_plan
\* on a caster whose non-cancelled plans were pairwise non-overlapping leaves
\* them, the inserted plan included, pairwise non-overlapping
C20_InsertionKeepsTimelineDisjoint ==
  [][(last'.op = "create_plan" /\ last'.ok /\ NonOverlapping(plans))
     => NonOverlapping(plans')]_vars

\* the table holding plan q alone: a verdict on it is a verdict caused by q
OnlyPlan(db, q) == [p \in PlanIds |-> IF p = q THEN db[p] ELSE NoPlan]

\* a candidate window [s, e) on caster c
Candidate(c, s, e) == [NoPlan EXCEPT !.ds = 0, !.caster = c, !.s = s, !.e = e]

\* C21: for every plan q in status Melting, Metal Ready, Casting or Coils
\* Complete and every candidate window [s, e) on q's caster, both
\* ensure_no_overlap_with_locked and step 1 of check_caster_overlap reject
\* the candidate because of q exactly when q.start < e and s < q.end, so the
\* two validators agree and a candidate that only touches q is accepted.
C21_LockedOverlapHalfOpen ==
  \A q \in Exists(plans) :
    (plans[q].status \in PLAN_LOCKED_STATUSES /\ plans[q].ds < 2) =>
      \A s \in Times, e \in Times :
        s < e =>
          LET half_open == plans[q].s < e /\ s < plans[q].e
              db == OnlyPlan(plans, q)
          IN /\ ~ensure_no_overlap_with_locked(db, plans[q].caster, s, e) <=> half_open
             /\ locked_overlap(db, 0, Candidate(plans[q].caster, s, e)) <=> half_open

\* C22: earlier-movable conflict - a create_plan that succeeds never inserts
\* a plan whose window [S,E) overlaps a non-cancelled plan of the same
\* caster, in status Planned or Released, that started strictly before S
C22_EarlierMovableRejected ==
  [][(last'.op = "create_plan" /\ last'.ok)
     => LET n == last'.p IN
        ~\E q \in Live(plans) :
            /\ plans[q].caster = plans'[n].caster
            /\ plans[q].status \in MOVABLE_STATUSES
            /\ plans[q].s < plans'[n].s
            /\ Overlap(plans[q], plans'[n])]_vars

\* the non-cancelled plans of caster c whose window holds the instant x
PlansHolding(db, c, x) ==
  {q \in Live(db) : db[q].caster = c /\ db[q].s <= x /\ x < db[q].e}

\* the snapping rule applied to the overlapped plan o at time t: ss is the
\* start the rule allows
SnapsTo(db, t, o, ss) ==
  LET earlier == {q \in Live(db) : db[q].caster = db[o].caster /\ db[q].s < db[o].s} IN
  IF db[o].astart # NoTime /\ db[o].astart < t
  THEN ss = (IF db[o].e < t THEN t ELSE db[o].e)
  ELSE IF earlier # {} THEN \E q \in earlier : ss = db[q].e
  ELSE ss = db[o].s

\* C23: snapping rule - whenever preview_plan_insertion answers a request
\* [rs, re): the suggested window is as long as the requested one; it is the
\* requested window when rs lies inside no plan; otherwise, for a plan
\* holding rs, suggested_start is that plan's end (or now) when the plan has
\* begun executing (actual_start set and before now), else the end of a
\* strictly earlier plan when there is one, else the plan's own start
C23_SnappingRule ==
  \A c \in Casters, rs \in Times, re \in Times, tie \in Ties(plans) :
    LET r == preview_plan_insertion(plans, now, c, rs, re, tie)
        inside == PlansHolding(plans, c, rs)
    IN r.ok =>
         /\ r.suggested_end - r.suggested_start = re - rs
         /\ IF inside = {} THEN r.suggested_start = rs
            ELSE \E o \in inside : SnapsTo(plans, now, o, r.suggested_start)

\* C24: preview and create agree - whenever preview_plan_insertion answers
\* with a suggested window, shift_delta and affected_plans, a create_plan of
\* the suggested window made in the same state succeeds, moves every plan of
\* affected_plans by exactly shift_delta and moves no other plan
C24_PreviewCreateAgree ==
  \A c \in Casters, rs \in Times, re \in Times, tie \in Ties(plans) :
    LET pv == preview_plan_insertion(plans, now, c, rs, re, tie) IN
    (pv.ok /\ NewName(plans) <= MaxPlans) =>
      LET cr == create_plan_result(plans, now, c, pv.suggested_start, pv.suggested_end, TRUE)
      IN /\ cr.ok
         /\ \A q \in Exists(plans) :
              IF q \in pv.affected_plans
              THEN WindowOf(cr.db[q]) = <<plans[q].s + pv.shift_delta_seconds,
                                          plans[q].e + pv.shift_delta_seconds>>
              ELSE WindowOf(cr.db[q]) = WindowOf(plans[q])

\* plan q is in a movable status while the Melting Batch it links to exists
\* and has left Draft
SecondaryLocked(db, q) ==
  /\ db[q].status \in MOVABLE_STATUSES
  /\ db[q].mbl # 0
  /\ db[db[q].mbl].mb \notin {"None", "Draft"}

\* C25: secondary lock - no request changes the window of a non-cancelled
\* plan, other than the plan the request names, that is in a movable status
\* and whose linked Melting Batch has left Draft
C25_SecondaryLock ==
  [][\A q \in Live(plans) \ {last'.p} :
        SecondaryLocked(plans, q) => WindowOf(plans'[q]) = WindowOf(plans[q])]_vars

\* the requests that re-anchor the plan they name on its start of melting
ReanchorRequests ==
  {"start_melting_for_plan", "shift_schedule_on_melting_start", "log_process_event",
   "start_batch_from_cast_plan", "add_raw_material_row"}

\* C26: invariant I3 - a plan whose status has left the movable set keeps
\* its planned_duration_minutes through every request, except that a
\* re-anchoring request may compute it once for the plan it names when none
\* was stored
C26_PlannedDurationImmutable ==
  [][\A q \in Exists(plans) :
        plans[q].status \notin MOVABLE_STATUSES =>
          \/ plans'[q].pdm = plans[q].pdm
          \/ (plans[q].pdm = 0 /\ last'.op \in ReanchorRequests /\ last'.p = q)]_vars

\* a plan that was melting has been completed: its window now is its actual
\* production window, not as long as its planned duration, which it kept
C26_Witness ==
  /\ last.op = "mark_casting_complete" /\ last.ok /\ last.p # 0
  /\ plans[last.p].astart # NoTime
  /\ last.p \in last.moved
  /\ plans[last.p].pdm # plans[last.p].e - plans[last.p].s

\* the table after the uniform shift create_plan makes for the window [S, E)
\* on caster c
InsertionShift(db, c, S, E) ==
  LET sd == compute_shift_window_and_delta(db, c, S, E) IN
  IF sd[1] # NoTime /\ sd[2] > 0 THEN shift_future_plans(db, c, sd[1], sd[2]) ELSE db

\* C27: ordering and gaps - the uniform shift made for an insertion that
\* passed create_plan's checks never swaps the start order of two plans of
\* the caster, shifted or not and whatever their status, and leaves the gap
\* between any two plans it shifted as it was
C27_ShiftKeepsOrderAndGaps ==
  \A c \in Casters, S \in Times, E \in Times :
    (/\ end_after_start(S, E)
     /\ ensure_not_in_past(S, now)
     /\ ensure_no_overlap_with_locked(plans, c, S, E))
    => LET db == InsertionShift(plans, c, S, E) IN
       \A p \in Exists(plans), q \in Exists(plans) :
         (plans[p].caster = c /\ plans[q].caster = c) =>
           /\ plans[p].s < plans[q].s => db[p].s <= db[q].s
           /\ (p \in Moved(plans, db) /\ q \in Moved(plans, db))
                => db[q].s - db[p].e = plans[q].s - plans[p].e

\* the requests that save the window of the plan they name through validate()
SavesWindow == {"create_plan", "start_melting_for_plan", "update_plan_times"}

\* C28: Not Produced is locked - a request that succeeds in saving the
\* window of a plan (an insertion, a re-anchor, a change of times) never
\* leaves that plan overlapping a non-cancelled plan of the same caster that
\* is in status Not Produced
C28_NotProducedLocked ==
  [][(last'.op \in SavesWindow /\ last'.ok /\ last'.p # 0)
     => LET p == last'.p IN
        \A q \in Live(plans') \ {p} :
          (plans'[q].caster = plans'[p].caster /\ plans'[q].status = "Not Produced")
          => ~Overlap(plans'[p], plans'[q])]_vars

\* C29: in every reachable state every non-cancelled plan in status Planned
\* or Released that has a stored planned_duration_minutes has it equal to
\* end_datetime minus start_datetime
C29_MovableDurationMatchesWindow ==
  \A p \in Live(plans) :
    (plans[p].status \in MOVABLE_STATUSES /\ plans[p].pdm # 0)
    => plans[p].pdm = plans[p].e - plans[p].s

\* C30: in every reachable state every non-cancelled plan has start_datetime
\* strictly before end_datetime
C30_StartBeforeEnd ==
  \A p \in Live(plans) : plans[p].s < plans[p].e
====
